---------------------------- MODULE Spec2Model ----------------------------
(***************************************************************************)
(* A model of script.js: the video-gallery page script.                    *)
(*                                                                         *)
(* Strings are sequences of tokens.  A token is an indivisible piece of    *)
(* text ("youtu.be/", "&", "7", ...); the regular expressions of the       *)
(* source are matched token by token, so every literal of a pattern is a   *)
(* sequence of tokens and the character classes are sets of tokens.        *)
(* JavaScript values are tagged records (string, number, null).            *)
(***************************************************************************)
EXTENDS Integers, Sequences, FiniteSets, TLC

(***************************************************************************)
(* Bounds of the model.                                                    *)
(***************************************************************************)
MaxRows == 2          \* data rows (after the header row) in a catalog response
MaxSessions == 3      \* calls of showVideoPlayer in one behaviour
MaxViews == 1300      \* formatViews is applied to every count 0..MaxViews
MaxUrlLen == 4        \* tokens of the URLs enumerated for getVideoPlatform
MaxLabelLen == 2      \* tokens of the column labels enumerated for the column names
MaxCol == 7           \* last column position (0-based) a label is resolved at

(***************************************************************************)
(* JavaScript values.                                                      *)
(***************************************************************************)
Str(s) == [t |-> "str", s |-> s, n |-> 0]
Num(k) == [t |-> "num", s |-> <<>>, n |-> k]
Null == [t |-> "null", s |-> <<>>, n |-> 0]
NaN == [t |-> "nan", s |-> <<>>, n |-> 0]

\* ToBoolean: '' , 0, NaN and null/undefined are falsy.
Truthy(v) == \/ v.t = "str" /\ v.s # <<>>
             \/ v.t = "num" /\ v.n # 0

\* a || b
OrElse(a, b) == IF Truthy(a) THEN a ELSE b

\* String(v) as it appears inside a template literal.
Text(v) == CASE v.t = "str" -> v.s
             [] v.t = "num" -> <<ToString(v.n)>>
             [] OTHER -> <<"null">>

(***************************************************************************)
(* Token-level string helpers.                                             *)
(***************************************************************************)
\* s.includes(tok) for a one-token needle
Includes(s, tok) == \E i \in 1..Len(s) : s[i] = tok

\* the literal lit occurs in s at position p
MatchLit(s, p, lit) ==
    /\ p >= 1
    /\ p + Len(lit) - 1 <= Len(s)
    /\ SubSeq(s, p, p + Len(lit) - 1) = lit

\* length of the longest run of tokens of class C in s starting at p (greedy +)
RECURSIVE RunLen(_, _, _)
RunLen(s, p, C) ==
    IF p <= Len(s) /\ s[p] \in C THEN 1 + RunLen(s, p + 1, C) ELSE 0

Min(S) == CHOOSE x \in S : \A y \in S : x <= y
Max(S) == CHOOSE x \in S : \A y \in S : x >= y


(***************************************************************************)
(* formatViews                                                             *)
(***************************************************************************)
\* 2^k mod m
RECURSIVE Pow2Mod(_, _)
Pow2Mod(k, m) == IF k = 0 THEN 1 % m ELSE (2 * Pow2Mod(k - 1, m)) % m

\* a * b mod m for a, b < m <= 10^6, without leaving 32 bits
MulMod(a, b, m) == (((a * (b \div 1000)) % m) * 1000 + a * (b % 1000)) % m

\* the binary exponent of n / d for n >= d: the e with 2^e <= n/d < 2^(e+1)
RECURSIVE Log2Floor(_, _)
Log2Floor(n, d) == IF n < 2 * d THEN 0 ELSE 1 + Log2Floor(n \div 2, d)

\* n / d is a double: the quotient rounded to 53 significant bits.  With
\* 2^52 <= (n/d) * 2^k < 2^53, the remainder of n * 2^k by d tells on which side
\* of the quotient the double lies: "exact", "below" or "above".
DoubleSide(n, d) ==
    LET k == 52 - Log2Floor(n, d)
        r == MulMod(n % d, Pow2Mod(k, d), d)
    IN  IF r = 0 THEN "exact" ELSE IF 2 * r < d THEN "below" ELSE "above"

\* (n / d).toFixed(1) for integers n >= d, as <<integer part, tenth>>: the number
\* of tenths nearest to the double n / d, the larger one when both are as near.
\* The double differs from the quotient by far less than the quotient differs
\* from a tie, unless the quotient is itself a tie (second decimal 5, nothing
\* after): then the side of the double decides.
ToFixed1(n, d) ==
    LET lower == (n * 10) \div d
        rest == (n * 10) % d
        up == IF 2 * rest # d THEN 2 * rest > d
              ELSE DoubleSide(n, d) # "below"
        tenths == IF up THEN lower + 1 ELSE lower
    IN  <<tenths \div 10, tenths % 10>>

\* x.toFixed(1).replace(/\.0$/, '')
StripDotZero(fx) ==
    IF fx[2] = 0 THEN <<ToString(fx[1])>>
    ELSE <<ToString(fx[1]), ".", ToString(fx[2])>>

\* !views || isNaN(views): the values given to formatViews are numbers, NaN, null
\* or undefined
formatViews(views) ==
    IF ~Truthy(views) \/ views.t # "num" THEN <<"0">>
    ELSE IF views.n >= 1000000
         THEN StripDotZero(ToFixed1(views.n, 1000000)) \o <<"M">>
    ELSE IF views.n >= 1000
         THEN StripDotZero(ToFixed1(views.n, 1000)) \o <<"K">>
    ELSE <<ToString(views.n)>>

(***************************************************************************)
(* Platform resolver                                                       *)
(***************************************************************************)
Digits == {"7", "6"}
\* every token a URL of the model is made of
UrlTokens == {"https://", "youtu.be/", "youtube.com/", "embed/", "v/", "watch",
              "?", "&", "v=", "t=", "vimeo.com/", "ex.com/", "abc", "xyz",
              "linear-gradient", ".png"} \cup Digits
\* the class [^&?]
IdClass == UrlTokens \ {"&", "?"}

\* the alternatives of the YouTube pattern that are plain literals, in order
YouTubeMarkers == << <<"youtu.be/">>,
                     <<"youtube.com/", "embed/">>,
                     <<"youtube.com/", "v/">>,
                     <<"youtube.com/", "watch", "?", "v=">> >>
\* the last alternative: watch\?.+&v=
WatchPrefix == <<"youtube.com/", "watch", "?">>
AmpV == <<"&", "v=">>

\* positions where the capture group can start when alternative k matches at p
LitIdStart(s, p, k) ==
    IF MatchLit(s, p, YouTubeMarkers[k])
       /\ RunLen(s, p + Len(YouTubeMarkers[k]), IdClass) >= 1
    THEN p + Len(YouTubeMarkers[k]) ELSE 0

\* watch\?.+&v=([^&?]+) at p: .+ is greedy, so the last usable "&v=" wins
WatchAnyIdStart(s, p) ==
    LET q == p + Len(WatchPrefix)
        J == {j \in (q + 1)..Len(s) :
                 MatchLit(s, j, AmpV) /\ RunLen(s, j + Len(AmpV), IdClass) >= 1}
    IN  IF MatchLit(s, p, WatchPrefix) /\ J # {} THEN Max(J) + Len(AmpV) ELSE 0

\* start of the capture group for a match attempted at p (0: no match at p)
YouTubeIdStartAt(s, p) ==
    LET K == {k \in 1..Len(YouTubeMarkers) : LitIdStart(s, p, k) # 0}
    IN  IF K # {} THEN LitIdStart(s, p, Min(K)) ELSE WatchAnyIdStart(s, p)

getYouTubeId(url) ==
    IF ~Truthy(url) THEN Null
    ELSE LET s == url.s
             P == {p \in 1..Len(s) : YouTubeIdStartAt(s, p) # 0}
         IN  IF P = {} THEN Null
             ELSE LET b == YouTubeIdStartAt(s, Min(P))
                  IN  Str(SubSeq(s, b, b + RunLen(s, b, IdClass) - 1))

getVimeoId(url) ==
    IF ~Truthy(url) THEN Null
    ELSE LET s == url.s
             P == {p \in 1..Len(s) :
                     MatchLit(s, p, <<"vimeo.com/">>) /\ RunLen(s, p + 1, Digits) >= 1}
         IN  IF P = {} THEN Null
             ELSE LET b == Min(P) + 1
                  IN  Str(SubSeq(s, b, b + RunLen(s, b, Digits) - 1))

NoPlatform == [platform |-> "none", id |-> <<>>]

\* getVideoPlatform with the two lookups exchanged: Vimeo is tried first
getVideoPlatformVimeoFirst(url) ==
    IF Truthy(getVimeoId(url))
    THEN [platform |-> "vimeo", id |-> getVimeoId(url).s]
    ELSE IF Truthy(getYouTubeId(url))
    THEN [platform |-> "youtube", id |-> getYouTubeId(url).s]
    ELSE NoPlatform

getVideoPlatform(url) ==
    IF Truthy(getYouTubeId(url))
    THEN [platform |-> "youtube", id |-> getYouTubeId(url).s]
    ELSE IF Truthy(getVimeoId(url))
    THEN [platform |-> "vimeo", id |-> getVimeoId(url).s]
    ELSE NoPlatform

(***************************************************************************)
(* Thumbnails                                                              *)
(***************************************************************************)
FALLBACK_GRADIENTS == << <<"#ff6b9d", "#c44dff">>,
                         <<"#4de1ff", "#4d7cff">>,
                         <<"#ffeb4d", "#ff9d4d">>,
                         <<"#4dff88", "#4de1ff">>,
                         <<"#ff4d88", "#ff4dcd">>,
                         <<"#c44dff", "#4d88ff">> >>

getThumbnail(videoUrl, customThumbnail) ==
    IF Truthy(customThumbnail) THEN customThumbnail
    ELSE IF Truthy(getYouTubeId(videoUrl))
    THEN Str(<<"https://img.youtube.com/vi/">> \o getYouTubeId(videoUrl).s
             \o <<"/hqdefault.jpg">>)
    ELSE Null

\* the value of the CSS background property showing an image
UrlBackground(thumbnail) == <<"url('">> \o Text(thumbnail) \o <<"') center/cover">>

\* the value of the CSS background property showing the gradient of a row index
GradientBackground(index) ==
    LET gradient == FALLBACK_GRADIENTS[(index % Len(FALLBACK_GRADIENTS)) + 1]
    IN  <<"linear-gradient", "(135deg, ", gradient[1], ", ", gradient[2], ")">>

(***************************************************************************)
(* Catalog payload: columns, rows, cells                                   *)
(***************************************************************************)
\* String.prototype.toLowerCase on one token
LowerToken(tok) == CASE tok = "Title" -> "title"
                     [] tok = "TAGS" -> "tags"
                     [] tok = "VideoUrl" -> "videourl"
                     [] tok = "Thumbnail" -> "thumbnail"
                     [] tok = "Name" -> "name"
                     [] OTHER -> tok

toLowerCase(s) == [i \in 1..Len(s) |-> LowerToken(s[i])]

\* String.prototype.trim: white space is the token " "
RECURSIVE trim(_)
trim(s) == IF s # <<>> /\ Head(s) = " " THEN trim(Tail(s))
           ELSE IF s # <<>> /\ s[Len(s)] = " " THEN trim(SubSeq(s, 1, Len(s) - 1))
           ELSE s

colMap == << <<"title">>, <<"tags">>, <<"icon">>, <<"views">>, <<"videourl">>,
             <<"thumbnail">> >>

\* the column name computed without .trim()
ColNameUntrimmed(label, i) ==
    LET l == toLowerCase(OrElse(label, Str(<<>>)).s)
    IN  IF l # <<>> THEN l
        ELSE IF i < Len(colMap) THEN colMap[i + 1]
        ELSE <<"col", ToString(i)>>

\* the name of column i (0-based, as in the source) whose label is c.label
ColName(label, i) ==
    LET l == trim(toLowerCase(OrElse(label, Str(<<>>)).s))
    IN  IF l # <<>> THEN l
        ELSE IF i < Len(colMap) THEN colMap[i + 1]
        ELSE <<"col", ToString(i)>>

\* data.table.cols.map(...): labels is the sequence of the c.label values
ResolveCols(labels) == [k \in 1..Len(labels) |-> ColName(labels[k], k - 1)]

\* a cell {v, f}; NoCell is a null entry of row.c
Cell(v, f) == [null |-> FALSE, v |-> v, f |-> f]
NoCell == [null |-> TRUE, v |-> Null, f |-> Null]

\* cell.v !== null && cell.v !== undefined ? cell.v : (cell.f || '')
CellValue(cell) == IF cell.v.t # "null" THEN cell.v ELSE OrElse(cell.f, Str(<<>>))

\* the video object after the first k cells of row.c were visited
RECURSIVE BuildVideo(_, _, _)
BuildVideo(cols, cells, k) ==
    IF k = 0 THEN [name \in {} |-> Null]
    ELSE LET prev == BuildVideo(cols, cells, k - 1)
         IN  IF k <= Len(cols) /\ ~cells[k].null
             THEN [name \in DOMAIN prev \cup {cols[k]} |->
                      IF name = cols[k] THEN CellValue(cells[k]) ELSE prev[name]]
             ELSE prev

\* video.<name>, undefined when the object has no such property
Field(video, name) == IF name \in DOMAIN video THEN video[name] ELSE Null

(***************************************************************************)
(* createVideoCard                                                         *)
(***************************************************************************)
\* const videoUrl = video.videourl || video.videoUrl || ''
VideoUrlOf(video) ==
    OrElse(Field(video, <<"videourl">>), OrElse(Field(video, <<"videoUrl">>), Str(<<>>)))

\* url.match is not a function when the cell held a number: a TypeError
CardThrows(video) == VideoUrlOf(video).t = "num"

ThumbnailStyle(video, index) ==
    LET thumbnail == getThumbnail(VideoUrlOf(video), Field(video, <<"thumbnail">>))
    IN  IF Truthy(thumbnail) THEN UrlBackground(thumbnail)
        ELSE GradientBackground(index)

InitialViews(video) ==
    IF getVideoPlatform(VideoUrlOf(video)).platform = "youtube" THEN <<"Loading...">>
    ELSE Text(OrElse(Field(video, <<"views">>), Str(<<"0">>)))

\* The card element: its dataset, the parts of its innerHTML that change later,
\* its style.animation, and what its click handler closes over (url, title).
createVideoCard(video, index) ==
    LET videoUrl == VideoUrlOf(video)
        platform == getVideoPlatform(videoUrl)
    IN  [tags       |-> Text(OrElse(Field(video, <<"tags">>), Str(<<>>))),
         videoUrl   |-> Text(videoUrl),
         platform   |-> platform.platform,
         videoId    |-> platform.id,
         background |-> ThumbnailStyle(video, index),
         viewText   |-> InitialViews(video),
         title      |-> Text(OrElse(Field(video, <<"title">>), Str(<<"Untitled">>))),
         handler    |-> TRUE,
         url        |-> videoUrl,
         index      |-> index,
         animation  |-> <<>>]

(***************************************************************************)
(* Metadata fetchers.  A response is what the network delivers:            *)
(* ok = FALSE is a rejected fetch or a body that does not parse.           *)
(***************************************************************************)
\* fetchYouTubeViews: resp.views is data.views (Null when the field is absent)
fetchYouTubeViews(resp) ==
    IF ~resp.ok THEN [threw |-> FALSE, value |-> Null]
    ELSE [threw |-> FALSE, value |-> OrElse(resp.views, Null)]

\* fetchVimeoThumbnail: resp.large, resp.medium are data[0]?.thumbnail_large/_medium
fetchVimeoThumbnail(resp) ==
    IF ~resp.ok THEN [threw |-> FALSE, value |-> Null]
    ELSE [threw |-> FALSE, value |-> OrElse(resp.large, OrElse(resp.medium, Null))]

\* fetchVimeoInfo: resp.width, resp.height are data[0]?.width/.height
fetchVimeoInfo(resp) ==
    IF ~resp.ok THEN [width |-> 1920, height |-> 1080]
    ELSE [width  |-> OrElse(resp.width, Num(1920)).n,
          height |-> OrElse(resp.height, Num(1080)).n]

\* what the views endpoint can answer
ViewsResponses ==
    {[ok |-> FALSE, views |-> Null],
     [ok |-> TRUE, views |-> Null],
     [ok |-> TRUE, views |-> Num(0)],
     [ok |-> TRUE, views |-> Num(1500)]}

\* what the Vimeo endpoint can answer to the thumbnail request
ThumbResponses ==
    {[ok |-> FALSE, large |-> Null, medium |-> Null],
     [ok |-> TRUE, large |-> Null, medium |-> Null],
     [ok |-> TRUE, large |-> Str(<<"https://", "large", ".png">>), medium |-> Null],
     [ok |-> TRUE, large |-> Null, medium |-> Str(<<"https://", "medium", ".png">>)]}

\* what the Vimeo endpoint can answer to the info request
InfoResponses ==
    {[ok |-> FALSE, width |-> Null, height |-> Null],
     [ok |-> TRUE, width |-> Num(1080), height |-> Num(1920)],
     [ok |-> TRUE, width |-> Null, height |-> Null]}

(***************************************************************************)
(* The catalog responses the model draws from.                             *)
(***************************************************************************)
YouTubeUrl == Str(<<"https://", "youtu.be/", "abc">>)
VimeoUrl == Str(<<"https://", "vimeo.com/", "7", "6">>)
OtherUrl == Str(<<"https://", "ex.com/", "xyz">>)
CustomThumb == Str(<<"https://", "ex.com/", "abc", ".png">>)
\* a custom thumbnail whose file name contains the text "linear-gradient"
GradientNamedThumb == Str(<<"https://", "ex.com/", "linear-gradient", ".png">>)

S(tok) == Cell(Str(<<tok>>), Null)
Blank == Cell(Str(<<>>), Null)
U(url) == Cell(url, Null)

\* row.c of the rows of the sheet: title, tags, icon, views, videourl, thumbnail
RowPool ==
    { <<S("A"), S("vlog"), NoCell, NoCell, U(YouTubeUrl)>>,
      <<S("B"), S("vlog"), NoCell, NoCell, U(YouTubeUrl), U(CustomThumb)>>,
      <<S("C"), S("art"), S("*"), S("12"), U(VimeoUrl)>>,
      <<S("D"), S("art"), NoCell, NoCell, U(VimeoUrl), U(CustomThumb)>>,
      <<S("E"), S("art"), NoCell, NoCell, U(VimeoUrl), U(GradientNamedThumb)>>,
      <<S("F"), Blank, NoCell, Cell(Num(1200), Str(<<"1,200">>)), U(OtherUrl)>>,
      <<Cell(Null, Str(<<"G">>))>>,
      <<Blank, S("vlog"), NoCell, NoCell, U(YouTubeUrl)>>,
      <<NoCell, S("art"), NoCell, NoCell, U(VimeoUrl)>>,
      <<S("H"), Blank, NoCell, NoCell, Cell(Num(5), Null)>> }

HeaderRow == <<S("Title"), S("Tags"), S("Icon"), S("Views"), S("Url"), S("Thumb")>>

\* data.table.cols: the c.label of every column
LabelPool ==
    { [i \in 1..6 |-> Str(<<>>)],
      <<Str(<<"Title">>), Str(<<" ", "TAGS">>), Null, Str(<<" ">>),
        Str(<<"VideoUrl", " ">>), Str(<<"Thumbnail">>)>>,
      <<Str(<<"Name">>), Str(<<>>), Str(<<>>), Str(<<>>), Str(<<>>), Str(<<>>)>> }

RECURSIVE SeqsUpTo(_, _)
\* the sequences over S of length at most n
SeqsUpTo(Set, n) ==
    IF n = 0 THEN {<<>>}
    ELSE LET shorter == SeqsUpTo(Set, n - 1)
         IN  shorter \cup {Append(q, x) : q \in {r \in shorter : Len(r) = n - 1}, x \in Set}

\* kind: "neterr"   fetch(SHEET_URL) or response.text() rejects
\*       "noenvelope" the text does not match setResponse(...)
\*       "badjson"  JSON.parse throws
\*       "notable"  the JSON has no table, data.table.rows throws
\*       "nocols"   table.cols is missing, data.table.cols.map throws
\*       "norows"   table.rows is missing
\*       "ok"       table.cols and table.rows are arrays
FailedResponse(kind) == [kind |-> kind, labels |-> <<>>, rows |-> <<>>]

CatalogResponses ==
    {FailedResponse(k) : k \in {"neterr", "noenvelope", "badjson", "notable"}}
    \cup {[kind |-> "nocols", labels |-> <<>>, rows |-> r] : r \in {<<>>, <<HeaderRow>>}}
    \cup {[kind |-> "norows", labels |-> l, rows |-> <<>>] : l \in LabelPool}
    \cup {[kind |-> "ok", labels |-> l, rows |-> <<>>] : l \in LabelPool}
    \cup {[kind |-> "ok", labels |-> l, rows |-> <<HeaderRow>> \o d] :
             l \in LabelPool, d \in SeqsUpTo(RowPool, MaxRows)}

\* the cards index.html ships inside .video-grid before the script runs
DefaultGrid ==
    << [tags |-> <<"vlog">>, videoUrl |-> <<>>, platform |-> "none", videoId |-> <<>>,
        background |-> GradientBackground(0), viewText |-> <<"1.2K">>,
        title |-> <<"Default 1">>, handler |-> FALSE, url |-> Str(<<>>), index |-> 0,
        animation |-> <<>>],
       [tags |-> <<"art">>, videoUrl |-> <<>>, platform |-> "youtube",
        videoId |-> <<"xyz">>,
        background |-> GradientBackground(1), viewText |-> <<"856">>,
        title |-> <<"Default 2">>, handler |-> FALSE, url |-> Str(<<>>), index |-> 1,
        animation |-> <<>>] >>

(***************************************************************************)
(* State                                                                   *)
(***************************************************************************)
VARIABLES
    loadPc,      \* loadVideosFromSheet: "init", "fetching", "done", "failed"
    resp,        \* the catalog response loadVideosFromSheet received
    grid,        \* the .video-card children of .video-grid, in document order
    viewsFetch,  \* per card: the async callback of updateAllViewCounts
    thumbFetch,  \* per card: the async callback of updateVimeoThumbnails
    sessions,    \* the calls of showVideoPlayer, in call order
    body,        \* the .video-player-modal children of body, in document order
    resizeL,     \* sessions whose updateLayout listens to 'resize'
    orientL,     \* sessions whose updateLayout listens to 'orientationchange'
    keydownL,    \* sessions whose escHandler listens to 'keydown'
    viewport,    \* <<window.innerWidth, window.innerHeight>>
    notice,      \* a .y2k-alert is in the document
    opened,      \* the URLs given to window.open
    clicked,     \* the card (1-based) whose click handler ran last, 0 before any
    call,        \* the last call of a pure function: its name, argument, result
    tagActive,   \* the data-tag of the .tag-btn elements with class 'active'
    hidden,      \* per card: its classList contains 'hidden'
    lastTag,     \* the data-tag of the button clicked last, "none" before any
    entrance     \* per card: its style.opacity, "unset" until animateCardsIn ran

vars == <<loadPc, resp, grid, viewsFetch, thumbFetch, sessions, body, resizeL,
          orientL, keydownL, viewport, notice, opened, clicked, call,
          tagActive, hidden, lastTag, entrance>>

catalogVars == <<loadPc, resp, grid, viewsFetch, thumbFetch>>
playerVars == <<sessions, body, resizeL, orientL, keydownL, viewport>>
clickVars == <<notice, opened, clicked>>
galleryVars == <<tagActive, hidden, lastTag, entrance>>

Range(q) == {q[i] : i \in 1..Len(q)}

NoResponse == FailedResponse("none")
\* a callback that was not started
\* (got is what the fetcher returned to the callback, resp what the endpoint said)
NotStarted == [st |-> "none", resp |-> [ok |-> FALSE], got |-> Null]
\* a callback waiting for its fetch
Pending == [st |-> "pending", resp |-> [ok |-> FALSE], got |-> Null]

Viewports == {<<1920, 1080>>, <<400, 800>>, <<900, 400>>}

\* no pure function is called
NoCall == [fn |-> "none", arg |-> Null, result |-> Null, done |-> FALSE]

\* the page when the script has run
InitPage ==
    /\ loadPc = "init"
    /\ resp = NoResponse
    /\ grid = DefaultGrid
    /\ viewsFetch = [i \in 1..Len(DefaultGrid) |-> NotStarted]
    /\ thumbFetch = [i \in 1..Len(DefaultGrid) |-> NotStarted]
    /\ sessions = <<>>
    /\ body = <<>>
    /\ resizeL = {}
    /\ orientL = {}
    /\ keydownL = {}
    /\ viewport = <<1920, 1080>>
    /\ notice = FALSE
    /\ opened = {}
    /\ clicked = 0
    /\ tagActive = {"all"}
    /\ hidden = [i \in 1..Len(DefaultGrid) |-> FALSE]
    /\ lastTag = "none"
    /\ entrance = [i \in 1..Len(DefaultGrid) |-> "unset"]

Init == InitPage /\ call = NoCall

(***************************************************************************)
(* loadVideosFromSheet                                                     *)
(***************************************************************************)
\* document.addEventListener('DOMContentLoaded', loadVideosFromSheet):
\* the function runs up to its first await
LoadStart ==
    /\ loadPc = "init"
    /\ loadPc' = "fetching"
    /\ UNCHANGED <<resp, grid, viewsFetch, thumbFetch, playerVars, clickVars, call, galleryVars>>

\* RenderRows without the test `if (video.title)`: every row becomes a card
RECURSIVE RenderRowsKeepUntitled(_, _, _)
RenderRowsKeepUntitled(cols, dataRows, k) ==
    IF k = 0 THEN [cards |-> <<>>, threw |-> FALSE]
    ELSE LET prev == RenderRowsKeepUntitled(cols, dataRows, k - 1)
             video == BuildVideo(cols, dataRows[k], Len(dataRows[k]))
         IN  IF prev.threw THEN prev
             ELSE IF CardThrows(video) THEN [cards |-> prev.cards, threw |-> TRUE]
             ELSE [cards |-> Append(prev.cards, createVideoCard(video, k - 1)),
                   threw |-> FALSE]

\* rows.slice(1).forEach(...) over the first k data rows: the cards appended to
\* the emptied grid, and whether the callback threw (which ends the loop)
RECURSIVE RenderRows(_, _, _)
RenderRows(cols, dataRows, k) ==
    IF k = 0 THEN [cards |-> <<>>, threw |-> FALSE]
    ELSE LET prev == RenderRows(cols, dataRows, k - 1)
             video == BuildVideo(cols, dataRows[k], Len(dataRows[k]))
         IN  IF prev.threw \/ ~Truthy(Field(video, <<"title">>)) THEN prev
             ELSE IF CardThrows(video) THEN [cards |-> prev.cards, threw |-> TRUE]
             ELSE [cards |-> Append(prev.cards, createVideoCard(video, k - 1)),
                   threw |-> FALSE]

\* the responses that make the try block throw before the grid is touched
ThrowsEarly(r) == r.kind \in {"neterr", "noenvelope", "badjson", "notable", "nocols"}

\* the test as `rows && rows.length > 0`: a header row alone clears the grid
RebuildsFromFirstRow(r) == r.kind = "ok" /\ Len(r.rows) > 0

\* if (rows && rows.length > 1) { grid.innerHTML = ''; ... }
Rebuilds(r) == r.kind = "ok" /\ Len(r.rows) > 1

\* the outcome of the try block: the grid it leaves and whether it threw
LoadOutcome(r, oldGrid) ==
    IF ThrowsEarly(r) THEN [cards |-> oldGrid, threw |-> TRUE]
    ELSE IF Rebuilds(r)
    THEN RenderRows(ResolveCols(r.labels), Tail(r.rows), Len(r.rows) - 1)
    ELSE [cards |-> oldGrid, threw |-> FALSE]

\* updateAllViewCounts up to its await: one fetch per card with
\* data-platform="youtube"
StartViews(cards) ==
    [i \in 1..Len(cards) |->
        IF cards[i].platform = "youtube" THEN Pending
        ELSE NotStarted]

\* updateVimeoThumbnails up to its await: one fetch per card with
\* data-platform="vimeo" whose background includes 'linear-gradient'; the callback
\* of any other vimeo card returns at once
NeedsThumb(card) == Includes(card.background, "linear-gradient")

StartThumbs(cards) ==
    [i \in 1..Len(cards) |->
        IF cards[i].platform # "vimeo" THEN NotStarted
        ELSE IF NeedsThumb(cards[i]) THEN Pending
        ELSE [st |-> "fulfilled", resp |-> [ok |-> FALSE], got |-> Null]]

\* animateCardsIn up to its timers: card.style.opacity = '0' on every card
animateCardsIn(cards) == [i \in 1..Len(cards) |-> "0"]

\* the class 'hidden' of the cards the try block leaves: a card made by
\* createVideoCard has className 'video-card', a card that stays keeps its classes
HiddenAfterLoad(r, oldHidden, cards) ==
    IF ~ThrowsEarly(r) /\ Rebuilds(r) THEN [i \in 1..Len(cards) |-> FALSE]
    ELSE oldHidden

\* the catalog response arrives: the rest of loadVideosFromSheet, which ends by
\* calling animateCardsIn, updateAllViewCounts and updateVimeoThumbnails (or by
\* animateCardsIn in the catch block)
LoadSettleWith(r) ==
    /\ loadPc = "fetching"
    /\ resp' = r
    /\ \E out \in {LoadOutcome(r, grid)} :
           /\ grid' = out.cards
           /\ hidden' = HiddenAfterLoad(r, hidden, out.cards)
           /\ entrance' = animateCardsIn(out.cards)
           /\ loadPc' = IF out.threw THEN "failed" ELSE "done"
           /\ viewsFetch' = IF out.threw THEN [i \in 1..Len(out.cards) |-> NotStarted]
                            ELSE StartViews(out.cards)
           /\ thumbFetch' = IF out.threw THEN [i \in 1..Len(out.cards) |-> NotStarted]
                            ELSE StartThumbs(out.cards)
    /\ UNCHANGED <<playerVars, clickVars, call, tagActive, lastTag>>

LoadSettle == \E r \in CatalogResponses : LoadSettleWith(r)

\* the callback of updateAllViewCounts rebuilding the card's dataset when it
\* patches the text: the tags are lost
ViewsSettleResettingCard ==
    \E i \in 1..Len(grid), r \in ViewsResponses :
        /\ viewsFetch[i].st = "pending"
        /\ LET got == fetchYouTubeViews(r)
           IN  /\ viewsFetch' = [viewsFetch EXCEPT ![i] =
                     [st |-> IF got.threw THEN "rejected" ELSE "fulfilled",
                      resp |-> r, got |-> got.value]]
               /\ grid' = IF ~got.threw /\ got.value.t # "null"
                          THEN [grid EXCEPT ![i].viewText = formatViews(got.value),
                                            ![i].tags = <<>>]
                          ELSE grid
        /\ UNCHANGED <<loadPc, resp, thumbFetch, playerVars, clickVars, call, galleryVars>>

\* the callback of updateAllViewCounts without its test `views !== null`
ViewsSettlePatchingNull ==
    \E i \in 1..Len(grid), r \in ViewsResponses :
        /\ viewsFetch[i].st = "pending"
        /\ LET got == fetchYouTubeViews(r)
           IN  /\ viewsFetch' = [viewsFetch EXCEPT ![i] =
                     [st |-> IF got.threw THEN "rejected" ELSE "fulfilled",
                      resp |-> r, got |-> got.value]]
               /\ grid' = IF ~got.threw
                          THEN [grid EXCEPT ![i].viewText = formatViews(got.value)]
                          ELSE grid
        /\ UNCHANGED <<loadPc, resp, thumbFetch, playerVars, clickVars, call, galleryVars>>

\* the views endpoint answers for card i: the rest of the callback
ViewsSettle ==
    \E i \in 1..Len(grid), r \in ViewsResponses :
        /\ viewsFetch[i].st = "pending"
        /\ LET got == fetchYouTubeViews(r)
           IN  /\ viewsFetch' = [viewsFetch EXCEPT ![i] =
                     [st |-> IF got.threw THEN "rejected" ELSE "fulfilled",
                      resp |-> r, got |-> got.value]]
               /\ grid' = IF ~got.threw /\ got.value.t # "null"
                          THEN [grid EXCEPT ![i].viewText = formatViews(got.value)]
                          ELSE grid
        /\ UNCHANGED <<loadPc, resp, thumbFetch, playerVars, clickVars, call, galleryVars>>

\* the Vimeo endpoint answers the thumbnail request of card i
ThumbSettle ==
    \E i \in 1..Len(grid), r \in ThumbResponses :
        /\ thumbFetch[i].st = "pending"
        /\ LET got == fetchVimeoThumbnail(r)
           IN  /\ thumbFetch' = [thumbFetch EXCEPT ![i] =
                     [st |-> IF got.threw THEN "rejected" ELSE "fulfilled",
                      resp |-> r, got |-> got.value]]
               /\ grid' = IF ~got.threw /\ Truthy(got.value)
                          THEN [grid EXCEPT ![i].background = UrlBackground(got.value)]
                          ELSE grid
        /\ UNCHANGED <<loadPc, resp, viewsFetch, playerVars, clickVars, call, galleryVars>>

\* await Promise.all(fetchPromises): rejected as soon as one callback rejects,
\* fulfilled once every callback is
BatchStatus(fetches) ==
    IF \E i \in DOMAIN fetches : fetches[i].st = "rejected" THEN "rejected"
    ELSE IF \E i \in DOMAIN fetches : fetches[i].st = "pending" THEN "pending"
    ELSE "fulfilled"

(***************************************************************************)
(* showVideoPlayer                                                         *)
(***************************************************************************)
\* updateLayout with a small screen recognised by its width alone
LayoutModeWidthOnly(isPortrait, vp) ==
    LET vw == vp[1]
        vh == vp[2]
        isLandscapeScreen == vw > vh
        isMobile == vw < 768
    IN  IF isPortrait THEN "portrait"
        ELSE IF isLandscapeScreen /\ isMobile THEN "landscape-small"
        ELSE "default"

\* updateLayout: the branch taken for a video and a viewport
LayoutMode(isPortrait, vp) ==
    LET vw == vp[1]
        vh == vp[2]
        isLandscapeScreen == vw > vh
        isMobile == vw < 768 \/ vh < 500
    IN  IF isPortrait THEN "portrait"
        ELSE IF isLandscapeScreen /\ isMobile THEN "landscape-small"
        ELSE "default"

\* the remove() every element has: the element leaves the document, the
\* listeners stay
RemoveModalNative(s, st) ==
    [st EXCEPT !.body = SelectSeq(@, LAMBDA m : m # s),
               !.sessions = [@ EXCEPT ![s].state =
                                IF @ = "attached" THEN "detached" ELSE @]]

\* the overridden modal.remove of session s: both layout listeners go, then the
\* element leaves the document (a no-op when it is not attached)
RemoveModal(s, st) ==
    [st EXCEPT !.resizeL = @ \ {s},
               !.orientL = @ \ {s},
               !.body = SelectSeq(@, LAMBDA m : m # s),
               !.sessions = [@ EXCEPT ![s].state =
                                IF @ = "attached" THEN "detached" ELSE @]]

\* const existing = document.querySelector('.video-player-modal');
\* if (existing) existing.remove();
RemoveExisting(st) == IF st.body # <<>> THEN RemoveModal(Head(st.body), st) ELSE st

\* lines 296-517 for session s: the element is built, laid out, its listeners are
\* registered and it is appended to body
AttachModal(s, info, st) ==
    \* aspectRatio = width / height; isPortrait = aspectRatio < 1
    LET isPortrait == info.width < info.height
    IN  [st EXCEPT !.sessions = [@ EXCEPT ![s].state = "attached",
                                          ![s].width = info.width,
                                          ![s].height = info.height,
                                          ![s].isPortrait = isPortrait,
                                          ![s].layout = LayoutMode(isPortrait, viewport)],
                   !.resizeL = @ \cup {s},
                   !.orientL = @ \cup {s},
                   !.keydownL = @ \cup {s},
                   !.body = Append(@, s)]

\* the player state as one record, so that the steps above compose
PlayerState == [sessions |-> sessions, body |-> body, resizeL |-> resizeL,
                orientL |-> orientL, keydownL |-> keydownL]

SetPlayer(st) ==
    /\ sessions' = st.sessions
    /\ body' = st.body
    /\ resizeL' = st.resizeL
    /\ orientL' = st.orientL
    /\ keydownL' = st.keydownL

NewSession(platform, videoId, title) ==
    [platform |-> platform, videoId |-> videoId, title |-> title, state |-> "fetching",
     width |-> 16, height |-> 9, isPortrait |-> FALSE, layout |-> "none",
     info |-> "none"]

\* info: how the call's fetchVimeoInfo ended ("none": not ended or not made,
\* "failed": in its catch block, "ok": with the answer of the endpoint)
\* showVideoPlayer(platform, videoId, title) up to its first await, or to its end
\* when the platform is not vimeo
ShowVideoPlayer(platform, videoId, title) ==
    LET s == Len(sessions) + 1
        removed == RemoveExisting(PlayerState)
        called == [removed EXCEPT !.sessions =
                      Append(@, NewSession(platform, videoId, title))]
    IN  IF platform = "vimeo" THEN called
        ELSE AttachModal(s, [width |-> 16, height |-> 9], called)

\* card.style.animation = 'none'; card.offsetHeight;
\* card.style.animation = 'card-click 0.5s ease'
Pulse(cards, i) == [cards EXCEPT ![i].animation = <<"card-click 0.5s ease">>]

\* the click handler with its first two tests exchanged: the raw URL is tried
\* before the platform
ClickCardUrlFirst ==
    \E i \in 1..Len(grid) :
        /\ grid[i].handler
        /\ clicked' = i
        /\ LET platform == getVideoPlatform(grid[i].url)
           IN  IF Truthy(grid[i].url)
               THEN /\ opened' = opened \cup {grid[i].url.s}
                    /\ UNCHANGED <<notice, grid, sessions, body, resizeL, orientL,
                                   keydownL>>
               ELSE IF platform.platform # "none"
               THEN /\ Len(sessions) < MaxSessions
                    /\ SetPlayer(ShowVideoPlayer(platform.platform, platform.id,
                                                 grid[i].title))
                    /\ UNCHANGED <<notice, opened, grid>>
               ELSE /\ notice' = TRUE
                    /\ grid' = Pulse(grid, i)
                    /\ UNCHANGED <<opened, sessions, body, resizeL, orientL, keydownL>>
        /\ UNCHANGED <<loadPc, resp, viewsFetch, thumbFetch, viewport, call, galleryVars>>

\* the click handler of card i
ClickCard ==
    \E i \in 1..Len(grid) :
        /\ grid[i].handler
        /\ clicked' = i
        /\ LET platform == getVideoPlatform(grid[i].url)
           IN  IF platform.platform # "none"
               THEN /\ Len(sessions) < MaxSessions
                    /\ SetPlayer(ShowVideoPlayer(platform.platform, platform.id,
                                                 grid[i].title))
                    /\ UNCHANGED <<notice, opened, grid>>
               ELSE IF Truthy(grid[i].url)
               THEN /\ opened' = opened \cup {grid[i].url.s}
                    /\ UNCHANGED <<notice, grid, sessions, body, resizeL, orientL,
                                   keydownL>>
               ELSE /\ notice' = TRUE
                    /\ grid' = Pulse(grid, i)
                    /\ UNCHANGED <<opened, sessions, body, resizeL, orientL, keydownL>>
        /\ UNCHANGED <<loadPc, resp, viewsFetch, thumbFetch, viewport, call, galleryVars>>

\* the info request of session s ends: the rest of showVideoPlayer, where a
\* failed request ends the call without a modal
InfoSettleOfGivingUp(s) ==
    \E r \in InfoResponses :
        /\ s \in 1..Len(sessions)
        /\ sessions[s].state = "fetching"
        /\ LET info == IF r.ok THEN "ok" ELSE "failed"
               attached == AttachModal(s, fetchVimeoInfo(r), PlayerState)
               givenUp == [PlayerState EXCEPT !.sessions[s].state = "detached"]
               after == IF r.ok THEN attached ELSE givenUp
           IN  SetPlayer([after EXCEPT !.sessions[s].info = info])
        /\ UNCHANGED <<catalogVars, viewport, clickVars, call, galleryVars>>

\* the Vimeo endpoint answers the info request of session s (or the request
\* fails): the rest of showVideoPlayer
InfoSettleOf(s) ==
    \E r \in InfoResponses :
        /\ s \in 1..Len(sessions)
        /\ sessions[s].state = "fetching"
        /\ LET info == IF r.ok THEN "ok" ELSE "failed"
               attached == AttachModal(s, fetchVimeoInfo(r), PlayerState)
           IN  SetPlayer([attached EXCEPT !.sessions[s].info = info])
        /\ UNCHANGED <<catalogVars, viewport, clickVars, call, galleryVars>>

InfoSettle == \E s \in 1..MaxSessions : InfoSettleOf(s)

\* closeBtn.addEventListener('click', () => modal.remove())
CloseButton ==
    \E s \in Range(body) :
        /\ SetPlayer(RemoveModal(s, PlayerState))
        /\ UNCHANGED <<catalogVars, viewport, clickVars, call, galleryVars>>

\* backdrop.addEventListener('click', () => modal.remove())
BackdropClick ==
    \E s \in Range(body) :
        /\ SetPlayer(RemoveModal(s, PlayerState))
        /\ UNCHANGED <<catalogVars, viewport, clickVars, call, galleryVars>>

\* an escHandler that closes its modal and stays registered
EscHandlerStaying(s, st) == RemoveModal(s, st)

\* one escHandler with e.key === 'Escape': modal.remove(), then it unregisters
EscHandler(s, st) == [RemoveModal(s, st) EXCEPT !.keydownL = @ \ {s}]

RECURSIVE RunEscHandlers(_, _)
RunEscHandlers(L, st) ==
    IF L = {} THEN st
    ELSE LET s == Min(L) IN RunEscHandlers(L \ {s}, EscHandler(s, st))

\* a keydown event with key 'Escape' goes to every registered escHandler
EscapeKey ==
    /\ SetPlayer(RunEscHandlers(keydownL, PlayerState))
    /\ UNCHANGED <<catalogVars, viewport, clickVars, call, galleryVars>>

\* the layout of every session in L is recomputed for viewport vp
Relayout(L, vp) ==
    [s \in 1..Len(sessions) |->
        IF s \in L
        THEN [sessions[s] EXCEPT !.layout = LayoutMode(sessions[s].isPortrait, vp)]
        ELSE sessions[s]]

\* the window is resized: the 'resize' listeners run
Resize ==
    \E vp \in Viewports \ {viewport} :
        /\ viewport' = vp
        /\ sessions' = Relayout(resizeL, vp)
        /\ UNCHANGED <<catalogVars, body, resizeL, orientL, keydownL, clickVars, call, galleryVars>>

\* the device is turned: the 'orientationchange' listeners run
OrientationChange ==
    \E vp \in Viewports \ {viewport} :
        /\ (vp[1] > vp[2]) # (viewport[1] > viewport[2])
        /\ viewport' = vp
        /\ sessions' = Relayout(orientL, vp)
        /\ UNCHANGED <<catalogVars, body, resizeL, orientL, keydownL, clickVars, call, galleryVars>>

\* the OK! button of the notice: this.parentElement.parentElement.remove()
DismissNotice ==
    /\ notice
    /\ notice' = FALSE
    /\ UNCHANGED <<catalogVars, playerVars, opened, clicked, call, galleryVars>>

(***************************************************************************)
(* Tag filter and entrance animation                                       *)
(***************************************************************************)
\* the data-tag of the .tag-btn elements of the page
TagButtons == {"all", "vlog", "art"}

\* cardTags.includes(tag): tag occurs in cardTags as a contiguous part
IncludesTag(cardTags, tag) ==
    \E p \in 1..Len(cardTags) : MatchLit(cardTags, p, tag)

\* the click handler of the .tag-btn with data-tag = tag
TagClick(tag) ==
    /\ tagActive' = {tag}
    /\ lastTag' = tag
    /\ hidden' = [i \in 1..Len(grid) |->
                     IF tag = "all" THEN FALSE
                     ELSE ~IncludesTag(grid[i].tags, <<tag>>)]
    /\ UNCHANGED <<catalogVars, playerVars, clickVars, call, entrance>>

TagButtonClick == \E tag \in TagButtons : TagClick(tag)

\* a timer of animateCardsIn fires: the timers were set 100 ms apart in card
\* order, so the first card still at opacity '0' is shown
EntranceTimer ==
    \E i \in 1..Len(entrance) :
        /\ entrance[i] = "0"
        /\ \A j \in 1..(i - 1) : entrance[j] # "0"
        /\ entrance' = [entrance EXCEPT ![i] = "1"]
        /\ UNCHANGED <<catalogVars, playerVars, clickVars, call, tagActive, hidden,
                       lastTag>>

(***************************************************************************)
(* Specifications                                                          *)
(***************************************************************************)
\* the whole page
Next ==
    \/ LoadStart
    \/ LoadSettle
    \/ ViewsSettle
    \/ ThumbSettle
    \/ ClickCard
    \/ InfoSettle
    \/ CloseButton
    \/ BackdropClick
    \/ EscapeKey
    \/ Resize
    \/ OrientationChange
    \/ DismissNotice
    \/ TagButtonClick
    \/ EntranceTimer

Spec == Init /\ [][Next]_vars

\* The catalog loader and the enrichment of its cards, with nobody clicking:
\* no action of the player reads or writes what these actions write.
NextCatalog ==
    \/ LoadStart
    \/ LoadSettle
    \/ ViewsSettle
    \/ ThumbSettle

SpecCatalog == Init /\ [][NextCatalog]_vars

\* the catalog the player is exercised on: a YouTube card and a Vimeo card
PlayerCatalog ==
    [kind |-> "ok",
     labels |-> [i \in 1..6 |-> Str(<<>>)],
     rows |-> <<HeaderRow,
                <<S("A"), S("vlog"), NoCell, NoCell, U(YouTubeUrl)>>,
                <<S("C"), S("art"), S("*"), S("12"), U(VimeoUrl)>> >>]

\* The player on the cards of PlayerCatalog, while the enrichment fetches stay in
\* flight: no action of the player reads what the enrichment writes.
NextPlayer ==
    \/ LoadStart
    \/ LoadSettleWith(PlayerCatalog)
    \/ ClickCard
    \/ InfoSettle
    \/ CloseButton
    \/ BackdropClick
    \/ EscapeKey
    \/ Resize
    \/ OrientationChange

SpecPlayer == Init /\ [][NextPlayer]_vars

\* Opening and closing on the cards of PlayerCatalog, on a window that keeps its
\* size.
NextOpen ==
    \/ LoadStart
    \/ LoadSettleWith(PlayerCatalog)
    \/ ClickCard
    \/ InfoSettle
    \/ CloseButton

\* The same when every info request ends: fetch() settles, and fetchVimeoInfo
\* returns in its try block or in its catch block.
SpecOpenFair ==
    /\ Init
    /\ [][NextOpen]_vars
    /\ \A s \in 1..MaxSessions : WF_vars(InfoSettleOf(s))

\* the catalog the click handler is exercised on: a YouTube card, a Vimeo card,
\* a card with a URL of neither platform and a card without URL
ClickCatalog ==
    [kind |-> "ok",
     labels |-> [i \in 1..6 |-> Str(<<>>)],
     rows |-> <<HeaderRow,
                <<S("A"), S("vlog"), NoCell, NoCell, U(YouTubeUrl)>>,
                <<S("C"), S("art"), S("*"), S("12"), U(VimeoUrl)>>,
                <<S("F"), Blank, NoCell, Cell(Num(1200), Str(<<"1,200">>)), U(OtherUrl)>>,
                <<Cell(Null, Str(<<"G">>))>> >>]

\* Clicks on the cards of ClickCatalog, with the modals left open and the
\* enrichment fetches in flight.
NextClick ==
    \/ LoadStart
    \/ LoadSettleWith(ClickCatalog)
    \/ ClickCard
    \/ InfoSettle
    \/ DismissNotice

SpecClick == Init /\ [][NextClick]_vars

\* the catalog the tag filter is exercised on: cards tagged vlog, art, both,
\* with a word that contains 'art', and with no tag
FilterCatalog ==
    [kind |-> "ok",
     labels |-> [i \in 1..6 |-> Str(<<>>)],
     rows |-> <<HeaderRow,
                <<S("A"), S("vlog"), NoCell, NoCell, U(YouTubeUrl)>>,
                <<S("C"), S("art"), S("*"), S("12"), U(VimeoUrl)>>,
                <<S("I"), Cell(Str(<<"vlog", ",", "art">>), Null)>>,
                <<S("J"), Cell(Str(<<"p", "art", "y">>), Null)>>,
                <<S("F"), Blank, NoCell, Cell(Num(1200), Str(<<"1,200">>)), U(OtherUrl)>> >>]

\* the responses of CatalogResponses with no row after the header row
NoDataResponses == {r \in CatalogResponses : Len(r.rows) <= 1}

\* the responses the gallery is exercised on
GalleryResponses == NoDataResponses \cup {FilterCatalog}

\* The gallery with its tag buttons: the load, the enrichment of the cards, the
\* entrance animation and the tag filter, with nobody clicking a card.
NextGallery ==
    \/ LoadStart
    \/ \E r \in GalleryResponses : LoadSettleWith(r)
    \/ ViewsSettle
    \/ ThumbSettle
    \/ TagButtonClick
    \/ EntranceTimer

SpecGallery == Init /\ [][NextGallery]_vars

\* the counts formatViews is applied to: every count up to MaxViews, and counts
\* around the thresholds and in the millions
ViewCounts ==
    (0..MaxViews) \cup {1500, 999949, 999950, 999999, 1000000, 1049999, 1050000,
                        1150000, 1250000, 2500000, 12345678}

ViewsArgs == {Num(n) : n \in ViewCounts} \cup {NaN, Null}

\* the URLs getVideoPlatform is applied to: every URL of at most MaxUrlLen
\* tokens of a small alphabet, the longer URLs of every shape, '' and null
UrlAlphabet == {"youtu.be/", "vimeo.com/", "abc", "7", "&", "?"}

LongUrls ==
    { <<"https://", "youtube.com/", "embed/", "abc", "?", "t=", "7">>,
      <<"https://", "youtube.com/", "v/", "abc", "&", "t=", "7">>,
      <<"https://", "youtube.com/", "watch", "?", "v=", "abc">>,
      <<"https://", "youtube.com/", "watch", "?", "v=", "abc", "&", "t=", "7">>,
      <<"https://", "youtube.com/", "watch", "?", "t=", "7", "&", "v=", "abc">>,
      <<"https://", "youtube.com/", "watch", "?", "t=", "7", "&", "v=", "abc",
        "&", "v=", "xyz", "?", "7">>,
      <<"https://", "youtube.com/", "watch", "?", "v=", "&", "v=", "xyz">>,
      <<"https://", "youtube.com/", "watch", "?", "&", "v=", "abc">>,
      <<"https://", "youtube.com/", "watch", "?", "t=", "7">>,
      <<"https://", "youtube.com/", "embed/">>,
      <<"https://", "vimeo.com/", "7", "6", "?", "t=", "7">>,
      <<"https://", "vimeo.com/", "abc", "7">>,
      <<"https://", "vimeo.com/", "7", "6", "?", "v=", "youtu.be/", "xyz", "&", "7">>,
      <<"https://", "ex.com/", "watch", "?", "v=", "abc">>,
      <<"https://", "ex.com/", "xyz", ".png">> }

UrlArgs == {Str(u) : u \in SeqsUpTo(UrlAlphabet, MaxUrlLen) \cup LongUrls} \cup {Null}

\* the column labels and positions the column names are resolved for
LabelAlphabet == {" ", "Title", "TAGS", "views"}

ColArgs ==
    {[label |-> l, i |-> i] :
        l \in {Str(t) : t \in SeqsUpTo(LabelAlphabet, MaxLabelLen)} \cup {Null},
        i \in 0..MaxCol}

\* the calls to make: one function and one argument of its pool
PendingCalls ==
    {[fn |-> "formatViews", arg |-> a, result |-> Null, done |-> FALSE] : a \in ViewsArgs}
    \cup {[fn |-> "getVideoPlatform", arg |-> a, result |-> Null, done |-> FALSE] :
             a \in UrlArgs}
    \cup {[fn |-> "colName", arg |-> a, result |-> Null, done |-> FALSE] : a \in ColArgs}

InitFunctions == InitPage /\ call \in PendingCalls

\* formatViews(views)
CallFormatViews ==
    /\ call.fn = "formatViews" /\ ~call.done
    /\ call' = [call EXCEPT !.result = formatViews(call.arg), !.done = TRUE]
    /\ UNCHANGED <<catalogVars, playerVars, notice, opened, clicked, galleryVars>>

\* getVideoPlatform(url)
CallGetVideoPlatform ==
    /\ call.fn = "getVideoPlatform" /\ ~call.done
    /\ call' = [call EXCEPT !.result = getVideoPlatform(call.arg), !.done = TRUE]
    /\ UNCHANGED <<catalogVars, playerVars, notice, opened, clicked, galleryVars>>

\* the callback of data.table.cols.map for the column at position i
CallColName ==
    /\ call.fn = "colName" /\ ~call.done
    /\ call' = [call EXCEPT !.result = ColName(call.arg.label, call.arg.i),
                            !.done = TRUE]
    /\ UNCHANGED <<catalogVars, playerVars, notice, opened, clicked, galleryVars>>

\* The pure functions of the script, each applied to the arguments of its pool.
NextFunctions ==
    \/ CallFormatViews
    \/ CallGetVideoPlatform
    \/ CallColName

SpecFunctions == InitFunctions /\ [][NextFunctions]_vars

(***************************************************************************)
(* Claims about the player (checked under SpecPlayer)                      *)
(***************************************************************************)
\* a step that calls showVideoPlayer
OpensSession == Len(sessions') = Len(sessions) + 1

\* C1: in every reachable state the document contains at most one
\* video-player modal.
C1_AtMostOneModal == Len(body) <= 1

\* C2: a step that closes a modal by one of the three close triggers (the modal
\* leaves the document and showVideoPlayer was not called) leaves none of that
\* session's resize, orientationchange and keydown listeners registered.
C2_CloseRemovesListeners ==
    [][\A s \in Range(body) :
          (s \notin Range(body') /\ ~OpensSession)
              => (s \notin resizeL' /\ s \notin orientL' /\ s \notin keydownL')]_vars

\* C3: once a second video has been opened while a modal was open (the step calls
\* showVideoPlayer with a modal in the document and attaches the new modal), the
\* document holds exactly one modal and exactly one resize, one orientationchange
\* and one keydown listener.
C3_SecondOpenLeavesOneOfEach ==
    [][(OpensSession /\ body # <<>> /\ sessions'[Len(sessions')].state = "attached")
          => /\ Len(body') = 1
             /\ Cardinality(resizeL') = 1
             /\ Cardinality(orientL') = 1
             /\ Cardinality(keydownL') = 1]_vars

\* C6: when the Vimeo-info fetch of a session settles after another video was
\* opened (a later session exists), the step attaches no modal.
C6_StaleInfoDiscarded ==
    [][\A s \in 1..Len(sessions) :
          (sessions[s].state = "fetching" /\ s < Len(sessions)
           /\ sessions'[s].state # "fetching")
              => body' = body]_vars

\* C9: a step that calls showVideoPlayer detaches, in that same step, every modal
\* that was in the document, so no modal that was open at the call is attached
\* while the new one is under construction.
C9_OpenDetachesOldModals ==
    [][OpensSession => \A m \in Range(body) : m \notin Range(body')]_vars

\* the mode the classification rule gives a video on a viewport of width w and
\* height h
ClassifiedMode(isPortrait, w, h) ==
    CASE isPortrait -> "portrait"
      [] ~isPortrait /\ w > h /\ (w < 768 \/ h < 500) -> "landscape-small"
      [] ~isPortrait /\ ~(w > h /\ (w < 768 \/ h < 500)) -> "default"

\* C13: every modal in the document is laid out in the one mode the rule gives
\* its video on the current viewport (portrait-video when the video's aspect
\* ratio is below 1, else landscape-video-on-small-screen when width > height and
\* width < 768 or height < 500, else default); so a 16/9 video is in default mode
\* at 1920x1080 and in landscape-small mode at 900x400, a portrait video is in
\* portrait mode at 400x800; and a YouTube video is never portrait.
C13_LayoutClassification ==
    /\ \A s \in Range(body) :
          /\ sessions[s].isPortrait <=> sessions[s].width < sessions[s].height
          /\ sessions[s].layout =
                 ClassifiedMode(sessions[s].isPortrait, viewport[1], viewport[2])
          /\ (viewport = <<1920, 1080>> /\ ~sessions[s].isPortrait)
                 => sessions[s].layout = "default"
          /\ (viewport = <<400, 800>> /\ sessions[s].isPortrait)
                 => sessions[s].layout = "portrait"
          /\ (viewport = <<900, 400>> /\ ~sessions[s].isPortrait)
                 => sessions[s].layout = "landscape-small"
    /\ \A s \in 1..Len(sessions) :
          sessions[s].platform = "youtube"
              => ~sessions[s].isPortrait /\ sessions[s].layout # "portrait"

\* at 900x400 a YouTube modal is in landscape-small mode, and a portrait Vimeo
\* video has been laid out in portrait mode
C13_Witness ==
    /\ viewport = <<900, 400>>
    /\ \E s \in Range(body) :
          sessions[s].platform = "youtube" /\ sessions[s].layout = "landscape-small"
    /\ \E s \in 1..Len(sessions) :
          sessions[s].isPortrait /\ sessions[s].layout = "portrait"

\* C19: in every reachable state the sessions whose updateLayout listens to
\* 'resize', and those whose updateLayout listens to 'orientationchange', are
\* exactly the sessions whose modal is in the document.
C19_LayoutListenersIffAttached ==
    \A s \in 1..Len(sessions) :
        /\ s \in resizeL <=> s \in Range(body)
        /\ s \in orientL <=> s \in Range(body)
        /\ s \in Range(body) <=> sessions[s].state = "attached"

\* a modal is in the document with its two listeners, after an earlier modal
\* left the document and lost its own
C19_Witness ==
    /\ Len(sessions) >= 2
    /\ sessions[1].state = "detached"
    /\ 1 \notin resizeL \cup orientL
    /\ 2 \in Range(body)
    /\ 2 \in resizeL \cap orientL

\* C20: a step that handles an Escape keypress leaves no modal in the document
\* and no escHandler registered, whichever sessions the handlers belonged to;
\* when no modal was in the document, it changes nothing but the registered
\* escHandlers.
C20_EscapeClearsAll ==
    [][EscapeKey =>
          /\ body' = <<>>
          /\ keydownL' = {}
          /\ body = <<>> => UNCHANGED <<sessions, resizeL, orientL, viewport,
                                        catalogVars, clickVars>>]_vars

\* Escape has been handled after two sessions: no handler is left, no modal is
\* in the document
C20_Witness ==
    /\ Len(sessions) >= 2
    /\ \A s \in 1..Len(sessions) : sessions[s].state = "detached"
    /\ keydownL = {}

\* session s is created, or its info request ends, in this step
Proceeds(s) ==
    /\ s > Len(sessions) \/ sessions[s].state = "fetching"
    /\ sessions'[s].state # "fetching"

\* C18: every call of showVideoPlayer made by a click attaches a modal for its
\* video: at once for a YouTube card, and for a Vimeo card when its info
\* request ends, which every request does (SpecOpenFair).  Whenever a call
\* stops waiting, its modal is in the document with the platform, id and title of
\* the call; after a failed info request it is laid out for 1920x1080: not
\* portrait, padding 9/16.
C18_ClickOpensModal ==
    /\ [][\A s \in 1..Len(sessions') :
              Proceeds(s) =>
                  /\ sessions'[s].state = "attached"
                  /\ s \in Range(body')
                  /\ s <= Len(sessions) =>
                         /\ sessions'[s].platform = sessions[s].platform
                         /\ sessions'[s].videoId = sessions[s].videoId
                         /\ sessions'[s].title = sessions[s].title
                  /\ sessions'[s].info = "failed" =>
                         /\ sessions'[s].width = 1920
                         /\ sessions'[s].height = 1080
                         /\ ~sessions'[s].isPortrait
                         /\ sessions'[s].layout # "portrait"
                  /\ sessions'[s].info # "ok" =>
                         sessions'[s].width * 9 = sessions'[s].height * 16]_vars
    /\ \A s \in 1..MaxSessions :
          (Len(sessions) >= s /\ sessions[s].state = "fetching")
              ~> (Len(sessions) >= s /\ sessions[s].state = "attached")

\* the modal of a Vimeo video is in the document after its info request failed
C18_Witness ==
    \E s \in Range(body) :
        /\ sessions[s].platform = "vimeo"
        /\ sessions[s].info = "failed"
        /\ sessions[s].state = "attached"
        /\ sessions[s].width = 1920

(***************************************************************************)
(* Claims about the catalog loader and the enrichment (checked under       *)
(* SpecCatalog)                                                            *)
(***************************************************************************)
\* the video object of data row k (1-based) of the response
VideoOfRow(k) ==
    BuildVideo(ResolveCols(resp.labels), resp.rows[k + 1], Len(resp.rows[k + 1]))

\* the callback of a card has run to its end
Settled(fetch) == fetch.st \in {"fulfilled", "rejected"}

\* C4: whenever loadVideosFromSheet ends in its failure path, the gallery holds
\* exactly the content it held before the load started.
C4_FailureKeepsContent == loadPc = "failed" => grid = DefaultGrid

\* C5: every card whose own view-count fetch succeeded with {views: n} shows
\* formatViews(n), every card whose Vimeo-thumbnail fetch succeeded with a
\* thumbnail shows that thumbnail, whatever happened to the fetches of the other
\* cards, and neither Promise.all rejects.
C5_PerCardIsolation ==
    /\ \A i \in 1..Len(grid) :
          (Settled(viewsFetch[i]) /\ viewsFetch[i].resp.ok
           /\ viewsFetch[i].resp.views.t = "num")
              => grid[i].viewText = formatViews(viewsFetch[i].resp.views)
    /\ \A i \in 1..Len(grid) :
          (Settled(thumbFetch[i]) /\ thumbFetch[i].resp.ok
           /\ Truthy(OrElse(thumbFetch[i].resp.large, thumbFetch[i].resp.medium)))
              => grid[i].background =
                    UrlBackground(OrElse(thumbFetch[i].resp.large,
                                         thumbFetch[i].resp.medium))
    /\ BatchStatus(viewsFetch) # "rejected"
    /\ BatchStatus(thumbFetch) # "rejected"

\* C8: fetchYouTubeViews never throws to its caller, and for every endpoint
\* response {views: n} with n >= 0 it returns n (so it returns null only when the
\* request or the parse failed).
C8_ViewsFetchReturnsCount ==
    \A i \in 1..Len(grid) :
        Settled(viewsFetch[i])
            => /\ viewsFetch[i].st # "rejected"
               /\ (viewsFetch[i].resp.ok /\ viewsFetch[i].resp.views.t = "num")
                      => viewsFetch[i].got = viewsFetch[i].resp.views

\* the data rows (1-based) whose title is non-empty
TitledRows ==
    {k \in 1..(Len(resp.rows) - 1) : Truthy(Field(VideoOfRow(k), <<"title">>))}

\* no data row makes the row callback throw
WellFormedRows ==
    \A k \in 1..(Len(resp.rows) - 1) : VideoUrlOf(VideoOfRow(k)).t # "num"

\* the cards createVideoCard made, in document order
RenderedCards == SelectSeq(grid, LAMBDA card : card.handler)

\* C7: for a well-formed response with a header row and N data rows the load does
\* not abort, and the cards rendered into the gallery are exactly the data rows
\* whose title is non-empty, one card per such row, in row order; when N >= 1 the
\* gallery holds nothing else.
C7_CardsAreTitledRows ==
    (loadPc \in {"done", "failed"} /\ resp.kind = "ok" /\ Len(resp.rows) >= 1
     /\ WellFormedRows)
        => /\ loadPc = "done"
           /\ Len(RenderedCards) = Cardinality(TitledRows)
           /\ \A j \in 1..Len(RenderedCards) :
                 LET card == RenderedCards[j]
                 IN  /\ card.index + 1 \in TitledRows
                     /\ card.title = Text(Field(VideoOfRow(card.index + 1), <<"title">>))
                     /\ card.videoUrl = Text(VideoUrlOf(VideoOfRow(card.index + 1)))
           /\ \A i, j \in 1..Len(RenderedCards) :
                 i < j => RenderedCards[i].index < RenderedCards[j].index
           /\ Len(resp.rows) > 1 => grid = RenderedCards

\* a load that kept its second data row and dropped the untitled first one
C7_Witness ==
    /\ loadPc = "done"
    /\ Len(resp.rows) = 3
    /\ TitledRows = {2}
    /\ Len(grid) = 1
    /\ grid[1].index = 1

\* the background the precedence rule gives card j once enrichment has finished
PrecedenceBackground(j) ==
    LET video == VideoOfRow(grid[j].index + 1)
        custom == Field(video, <<"thumbnail">>)
        ytId == getYouTubeId(VideoUrlOf(video))
    IN  IF Truthy(custom) THEN UrlBackground(custom)
        ELSE IF Truthy(ytId)
        THEN UrlBackground(Str(<<"https://img.youtube.com/vi/">> \o ytId.s
                                \o <<"/hqdefault.jpg">>))
        ELSE IF grid[j].platform = "vimeo" /\ Truthy(thumbFetch[j].got)
        THEN UrlBackground(thumbFetch[j].got)
        ELSE GradientBackground(grid[j].index)

\* C10: once enrichment has finished, every card shows the highest-precedence
\* thumbnail available to it: custom > YouTube > fetched Vimeo > gradient of
\* index mod 6.
C10_ThumbnailPrecedence ==
    (loadPc = "done" /\ Rebuilds(resp) /\ BatchStatus(viewsFetch) = "fulfilled"
     /\ BatchStatus(thumbFetch) = "fulfilled")
        => \A j \in 1..Len(grid) : grid[j].background = PrecedenceBackground(j)

\* a step of the enrichment: a callback of updateAllViewCounts or of
\* updateVimeoThumbnails runs to its end
EnrichmentStep == loadPc' = loadPc /\ (viewsFetch' # viewsFetch \/ thumbFetch' # thumbFetch)

\* no card is added or removed, and no card's videoId, platform, videoUrl or tags
\* changes
CardsKept ==
    /\ Len(grid') = Len(grid)
    /\ \A i \in 1..Len(grid) :
          /\ grid'[i].videoId = grid[i].videoId
          /\ grid'[i].platform = grid[i].platform
          /\ grid'[i].videoUrl = grid[i].videoUrl
          /\ grid'[i].tags = grid[i].tags

\* C12 as stated: every rendered card carries a videoId, and no enrichment step
\* adds or removes a card or changes a card's videoId, platform, videoUrl or tags.
C12_EveryCardHasStableVideoId ==
    [][/\ \A i \in 1..Len(grid') : grid'[i].handler => grid'[i].videoId # <<>>
       /\ EnrichmentStep => CardsKept]_vars

\* C12 amended: every rendered card whose URL resolves to a platform carries that
\* platform and its id, every other rendered card carries neither, and no
\* enrichment step adds or removes a card or changes a card's videoId (or its
\* absence), platform, videoUrl or tags.
C12_StableCardState ==
    [][/\ \A i \in 1..Len(grid') :
             grid'[i].handler =>
                 /\ grid'[i].platform = getVideoPlatform(grid'[i].url).platform
                 /\ grid'[i].videoId = getVideoPlatform(grid'[i].url).id
                 /\ (grid'[i].videoId # <<>>) <=> (grid'[i].platform # "none")
       /\ EnrichmentStep => CardsKept]_vars

\* both patches have been applied: a YouTube card shows a fetched count and a
\* Vimeo card a fetched thumbnail
C12_Witness ==
    /\ \E i \in 1..Len(grid) :
          /\ grid[i].handler /\ grid[i].platform = "youtube"
          /\ viewsFetch[i].st = "fulfilled" /\ grid[i].viewText # <<"Loading...">>
    /\ \E i \in 1..Len(grid) :
          /\ grid[i].handler /\ grid[i].platform = "vimeo"
          /\ thumbFetch[i].st = "fulfilled" /\ Truthy(thumbFetch[i].got)
          /\ grid[i].background = UrlBackground(thumbFetch[i].got)

\* fetchYouTubeViews has returned a count to the callback of card i
CountReturned(fetches, i) == Settled(fetches[i]) /\ fetches[i].got.t # "null"

\* C17: in every state after rendering, a YouTube card shows "Loading..." as long
\* as its own view-count fetch has not returned a count (it is in flight, was
\* never started, or returned null) and formatViews(count) once it has returned
\* a count; a card of another kind shows the views field of its row, or "0";
\* and once a card's fetch has returned, or for a card that is not a YouTube
\* card, no later step changes the text.
C17_ViewTextLifecycle ==
    [][/\ \A cols \in {ResolveCols(resp'.labels)} : \A i \in 1..Len(grid') :
             grid'[i].handler =>
                 grid'[i].viewText =
                     IF grid'[i].platform = "youtube"
                     THEN IF CountReturned(viewsFetch', i)
                          THEN formatViews(viewsFetch'[i].got)
                          ELSE <<"Loading...">>
                     ELSE LET views == Field(BuildVideo(cols,
                                                        resp'.rows[grid'[i].index + 2],
                                                        Len(resp'.rows[grid'[i].index + 2])),
                                             <<"views">>)
                          IN  Text(OrElse(views, Str(<<"0">>)))
       /\ \A i \in 1..Len(grid) :
             (grid[i].handler /\ (Settled(viewsFetch[i]) \/ grid[i].platform # "youtube"))
                 => (Len(grid') = Len(grid) /\ grid'[i].viewText = grid[i].viewText)]_vars

\* one YouTube card shows the count its fetch returned, another still shows
\* "Loading..." after its fetch returned null
C17_Witness ==
    /\ \E i \in 1..Len(grid) :
          /\ grid[i].handler /\ grid[i].platform = "youtube"
          /\ CountReturned(viewsFetch, i)
          /\ grid[i].viewText = <<"1", ".", "5", "K">>
    /\ \E i \in 1..Len(grid) :
          /\ grid[i].handler /\ grid[i].platform = "youtube"
          /\ Settled(viewsFetch[i]) /\ viewsFetch[i].got.t = "null"
          /\ grid[i].viewText = <<"Loading...">>

(***************************************************************************)
(* Claims about the click handler (checked under SpecClick)                *)
(***************************************************************************)
\* a step in which something the click handler can do becomes visible
ClickStep ==
    \/ clicked' # clicked
    \/ OpensSession
    \/ opened' # opened
    \/ notice' /\ ~notice
    \/ /\ Len(grid') = Len(grid)
       /\ \E i \in 1..Len(grid) : grid'[i].animation # grid[i].animation

\* C11: a click on a card does exactly one of three things, by strict priority:
\* if the card's URL resolves to a platform, showVideoPlayer is called for that
\* platform, id and title (nothing is opened externally, no notice, no pulse);
\* else if the raw URL is non-empty it is given to window.open (no modal, no
\* notice, no pulse); else the card pulses and the notice is shown (no modal, no
\* external navigation).
C11_ClickDispatch ==
    [][ClickStep =>
          LET i == clicked'
              platform == getVideoPlatform(grid[i].url)
              last == sessions'[Len(sessions')]
          IN  /\ i \in 1..Len(grid)
              /\ IF platform.platform # "none"
                 THEN /\ OpensSession
                      /\ last.platform = platform.platform
                      /\ last.videoId = platform.id
                      /\ last.title = grid[i].title
                      /\ UNCHANGED <<opened, notice, grid>>
                 ELSE IF grid[i].url.s # <<>>
                 THEN /\ opened' = opened \cup {grid[i].url.s}
                      /\ UNCHANGED <<sessions, body, notice, grid>>
                 ELSE /\ notice'
                      /\ grid'[i].animation # <<>>
                      /\ UNCHANGED <<sessions, body, opened>>]_vars

\* each of the three outcomes has happened: a modal was opened, a URL was opened
\* externally, and a card pulsed under the notice
C11_Witness ==
    /\ Len(sessions) >= 1
    /\ opened # {}
    /\ notice
    /\ \E i \in 1..Len(grid) : grid[i].animation # <<>>

(***************************************************************************)
(* Claims about the pure functions (checked under SpecFunctions)           *)
(***************************************************************************)
\* n / d rounded to one decimal, a tie going up, as <<integer part, tenth>>
RoundedOneDecimal(n, d) ==
    LET tenths == (n * 10 + d \div 2) \div d
    IN  <<tenths \div 10, tenths % 10>>

\* the text the formatting rule gives the count n
ExactViews(n) ==
    IF n >= 1000000 THEN StripDotZero(RoundedOneDecimal(n, 1000000)) \o <<"M">>
    ELSE IF n >= 1000 THEN StripDotZero(RoundedOneDecimal(n, 1000)) \o <<"K">>
    ELSE <<ToString(n)>>

\* C14: for every non-negative integer n, formatViews(n) is n/1,000,000 rounded
\* to one decimal, a trailing ".0" stripped, and "M" when n >= 1,000,000; the
\* same with n/1,000 and "K" when 1,000 <= n < 1,000,000; the plain integer when
\* n < 1,000; NaN, null, undefined and 0 give "0"; so 999 -> "999",
\* 1000 -> "1K", 1500 -> "1.5K", 1000000 -> "1M", 2500000 -> "2.5M".
C14_FormatViewsExact ==
    (call.fn = "formatViews" /\ call.done) =>
        /\ call.arg.t = "num" => call.result = ExactViews(call.arg.n)
        /\ call.arg.t # "num" => call.result = <<"0">>
        /\ call.arg = Num(0) => call.result = <<"0">>
        /\ call.arg = Num(999) => call.result = <<"999">>
        /\ call.arg = Num(1000) => call.result = <<"1", "K">>
        /\ call.arg = Num(1500) => call.result = <<"1", ".", "5", "K">>
        /\ call.arg = Num(1000000) => call.result = <<"1", "M">>
        /\ call.arg = Num(2500000) => call.result = <<"2", ".", "5", "M">>

\* the YouTube shapes whose marker is a fixed text
ShapeMarkers == { <<"youtu.be/">>,
                  <<"youtube.com/", "embed/">>,
                  <<"youtube.com/", "v/">>,
                  <<"youtube.com/", "watch", "?", "v=">> }

\* the positions right after a marker of a YouTube shape in s; for the shape
\* youtube.com/watch?...&v= the marker is the "&v=" that follows a non-empty
\* "..."
AfterMarker(s) ==
    {b \in 1..(Len(s) + 1) : \E m \in ShapeMarkers : MatchLit(s, b - Len(m), m)}
    \cup {b \in 1..(Len(s) + 1) :
             /\ MatchLit(s, b - 2, <<"&", "v=">>)
             /\ \E q \in 1..(b - 6) : MatchLit(s, q, <<"youtube.com/", "watch", "?">>)}

\* the part of s from position b up to the next "&" or "?" (or the end)
UpToNextSeparator(s, b) ==
    LET stops == {c \in b..Len(s) : s[c] \in {"&", "?"}}
        c == IF stops = {} THEN Len(s) + 1 ELSE Min(stops)
    IN  SubSeq(s, b, c - 1)

\* the ids of the YouTube shapes found in s
YouTubeIds(s) == {UpToNextSeparator(s, b) : b \in AfterMarker(s)} \ {<<>>}

\* the digit runs that follow "vimeo.com/" in s
VimeoIds(s) ==
    {SubSeq(s, p + 1, p + RunLen(s, p + 1, Digits)) :
        p \in {q \in 1..Len(s) : s[q] = "vimeo.com/"}} \ {<<>>}

\* C15: getVideoPlatform gives youtube, with the text from the marker up to the
\* next "&" or "?" as id, for every URL holding a recognized YouTube shape (also
\* when the URL holds vimeo.com/<digits> as well); otherwise vimeo with the digits
\* for a URL holding vimeo.com/<digits>; and null for any other URL, for the
\* empty string and for null.
C15_PlatformResolution ==
    (call.fn = "getVideoPlatform" /\ call.done) =>
        LET s == call.arg.s
            r == call.result
        IN  IF call.arg.t = "null" \/ s = <<>> THEN r = NoPlatform
            ELSE IF YouTubeIds(s) # {}
            THEN r.platform = "youtube" /\ r.id \in YouTubeIds(s)
            ELSE IF VimeoIds(s) # {}
            THEN r.platform = "vimeo" /\ r.id \in VimeoIds(s)
            ELSE r = NoPlatform

\* a URL holding both vimeo.com/<digits> and a YouTube shape was resolved to
\* youtube
C15_Witness ==
    /\ call.fn = "getVideoPlatform" /\ call.done
    /\ VimeoIds(call.arg.s) # {}
    /\ YouTubeIds(call.arg.s) # {}
    /\ call.result.platform = "youtube"

\* the label lower-cased, without the white space at its ends ('' for no label)
LowerTrimmed(label) ==
    LET l == IF label.t = "str" THEN toLowerCase(label.s) ELSE <<>>
        inked == {k \in 1..Len(l) : l[k] # " "}
    IN  IF inked = {} THEN <<>> ELSE SubSeq(l, Min(inked), Max(inked))

PositionalDefaults == <<"title", "tags", "icon", "views", "videourl", "thumbnail">>

ShouldHide(card, tag) ==
    /\ tag # "all"
    /\ ~\E p \in 1..Len(card.tags) : card.tags[p] = tag

\* C21: in every state after a tag button was clicked, exactly one tag button
\* is active, and a card is hidden iff the active tag is not 'all' and the card's
\* tags do not contain it; also for the cards a load rendered after the click.
C21_TagFilterReflectsState ==
    lastTag # "none" =>
        /\ \E t \in TagButtons : tagActive = {t}
        /\ \A i \in 1..Len(grid) :
               hidden[i] <=> \A t \in tagActive : ShouldHide(grid[i], t)

\* the no-data outcomes of a load step: the response has a table with columns
\* whose rows are missing, empty, or the header row alone
SettlesWithoutData ==
    /\ loadPc = "fetching"
    /\ loadPc' # "fetching"
    /\ resp'.kind \in {"norows", "ok"}
    /\ Len(resp'.rows) <= 1

\* C22: a load whose response parses but carries no data rows leaves the cards of
\* the gallery as they were, starts the entrance animation on each of them, and
\* starts both enrichment passes over them: a views request for every YouTube
\* card, a thumbnail request for every Vimeo card that shows a gradient.
C22_NoDataKeepsGallery ==
    [][SettlesWithoutData =>
        /\ loadPc' = "done"
        /\ grid' = grid
        /\ hidden' = hidden
        /\ DOMAIN entrance' = 1..Len(grid)
        /\ \A i \in 1..Len(grid) :
              /\ entrance'[i] = "0"
              /\ viewsFetch'[i].st = "pending" <=> grid[i].platform = "youtube"
              /\ thumbFetch'[i].st = "pending" <=>
                    (grid[i].platform = "vimeo"
                     /\ \E p \in 1..Len(grid[i].background) :
                           grid[i].background[p] = "linear-gradient")]_vars

\* a header-only response arrived after the 'art' filter hid the first default
\* card: the default cards are still there, the first still hidden, the entrance
\* animation has begun, and the views request of the YouTube card was answered
C22_Witness ==
    /\ loadPc = "done"
    /\ resp.kind = "ok" /\ Len(resp.rows) = 1
    /\ Len(grid) = Len(DefaultGrid)
    /\ \A i \in 1..Len(grid) : grid[i].title = DefaultGrid[i].title
    /\ hidden[1] /\ ~hidden[2]
    /\ entrance[1] = "1" /\ entrance[2] = "0"
    /\ viewsFetch[2].st = "fulfilled"
====
